---- MODULE Spec2Model ----
(***************************************************************************)
(* Model of src/ntfs-capture.c (wimlib): capture of a WIM image from an   *)
(* NTFS volume.  Three mechanisms are modelled: the security descriptor   *)
(* index (struct sd_set, sd_set_add_sd), the capture of the streams of    *)
(* one inode into the lookup table (capture_ntfs_streams) and the         *)
(* recursive tree builder (__build_dentry_tree_ntfs, filldir).            *)
(***************************************************************************)
EXTENDS Integers, Sequences, FiniteSets, TLC

(***************************************************************************)
(* Bounds of the model.                                                    *)
(***************************************************************************)
\* longest security descriptor, in bytes, submitted to the index
MaxSdLen == 1
\* number of sd_set_add_sd calls of one run of SpecSD
MaxCalls == 5
\* number of objects of the volume below its root
MaxObjects == 2
\* number of faults (failed allocations, failed reads) of one run
MaxFaults == 1
\* number of characters of the long file name
LongNameLen == 2048
\* number of inodes whose streams one run of SpecStreams captures
MaxInodes == 2

(***************************************************************************)
(* Program constants.                                                      *)
(***************************************************************************)
\* sizeof(sd->sizes[0]), the sizes are u64
SizeofSize == 8
\* the null pointer
NULL == 0
\* sizeof(buf) of ntfs_attr_sha1sum: the most bytes one read fetches
ShaBufSize == 4096
\* the error codes of wimlib.h returned by this file (distinct, nonzero)
WIMLIB_ERR_NOMEM == 25
WIMLIB_ERR_NTFS_3G == 30
\* char path[4096] of build_dentry_tree_ntfs
PathCap == 4096

VARIABLES
    sd,        \* struct wim_security_data: descriptors, sizes, num_entries, total_length
    sd_set,    \* struct sd_set: root and the sd_node objects allocated so far
    heap,      \* live allocations made by sd_set_add_sd: [nodes, blobs]
    sd_hist,   \* history of the sd_set_add_sd calls: [calls, last, ids, uniq]
    dentries,  \* the struct dentry objects allocated so far; 1 is the root dentry
    ltes,      \* the struct lookup_table_entry objects allocated so far
    table,     \* struct lookup_table: the entries it holds
    path,      \* char path[4096] of build_dentry_tree_ntfs: [buf, hi]
    stack,     \* the active calls of __build_dentry_tree_ntfs, innermost last
    pc,        \* where the innermost call stands
    ret,       \* the value the call that returned last returned
    env,       \* the volume and the faults met: [conv, nobj, faults]
    audit      \* history, per dentry: what the capture did with its object

sdvars == <<sd, sd_set, heap, sd_hist>>
capvars == <<dentries, ltes, table, path, stack, pc, ret, env, audit>>
vars == <<sd, sd_set, heap, sd_hist, dentries, ltes, table, path, stack, pc, ret,
          env, audit>>

(***************************************************************************)
(* Byte strings and their digest.                                          *)
(***************************************************************************)
Bytes == 0..1

RECURSIVE Pow2(_)
Pow2(n) == IF n = 0 THEN 1 ELSE 2 * Pow2(n - 1)

RECURSIVE BitsValue(_)
BitsValue(b) ==
    IF b = <<>> THEN 0 ELSE 2 * BitsValue(SubSeq(b, 1, Len(b) - 1)) + b[Len(b)]

\* All byte strings of length lo..hi.
ByteStrings(lo, hi) == UNION {[1..n -> Bytes] : n \in lo..hi}

\* sha1_buffer / sha1_init, sha1_update, sha1_final: the digest of a byte
\* string.  SHA-1 is modelled as a scrambling of the strings' numbering that
\* is injective on the strings of the model (no collisions), and whose order
\* is not the order of the strings.
Sha1(b) == ((Pow2(Len(b)) - 1 + BitsValue(b)) * 101 + 57) % 257

\* hashes_cmp: three-way comparison of two digests
hashes_cmp(h1, h2) == IF h1 < h2 THEN -1 ELSE IF h1 > h2 THEN 1 ELSE 0

(***************************************************************************)
(* The security descriptor index.                                          *)
(***************************************************************************)
\* insert_sd_node(new, root): links new below root, by the order of the hashes
RECURSIVE insert_sd_node(_, _, _)
insert_sd_node(nodes, new, root) ==
    LET cmp == hashes_cmp(nodes[new].hash, nodes[root].hash) IN
    IF cmp < 0 THEN
        IF nodes[root].left # NULL
        THEN insert_sd_node(nodes, new, nodes[root].left)
        ELSE [nodes EXCEPT ![root].left = new]
    ELSE IF cmp > 0 THEN
        IF nodes[root].right # NULL
        THEN insert_sd_node(nodes, new, nodes[root].right)
        ELSE [nodes EXCEPT ![root].right = new]
    ELSE nodes  \* wimlib_assert(0)

\* lookup_sd(hash, root): the security ID stored for hash, or -1
RECURSIVE lookup_sd(_, _, _)
lookup_sd(nodes, hash, root) ==
    IF root = NULL THEN -1
    ELSE LET cmp == hashes_cmp(hash, nodes[root].hash) IN
         IF cmp < 0 THEN lookup_sd(nodes, hash, nodes[root].left)
         ELSE IF cmp > 0 THEN lookup_sd(nodes, hash, nodes[root].right)
         ELSE nodes[root].security_id

\* The allocations of sd_set_add_sd, in program order; "none": no failure.
SdFailPoints == {"none", "node", "descr_copy", "descriptors", "sizes"}

\* The value of an array slot that REALLOC added and nothing wrote yet.
Uninit == "uninit"

\* s with slot i (1-based) set to v, the array being grown to i slots at least
GrowTo(s, n) == IF Len(s) >= n THEN s ELSE s \o [i \in 1..(n - Len(s)) |-> Uninit]

\* out_free_node without the FREE.
out_free_node_leak(h) == h

\* out_free_node: FREE(new)
out_free_node(h) == [h EXCEPT !.nodes = @ - 1]

\* out_free_descr: FREE(descr_copy), falling through to out_free_node
out_free_descr(h) == out_free_node([h EXCEPT !.blobs = @ - 1])

\* sd_set_add_sd(sd_set, descriptor, size) with the allocation named by
\* fail failing.  S is [sd, sd_set, heap]; the result is [S, ret].
sd_set_add_sd(S, descriptor, size, fail) ==
    LET hash == Sha1(descriptor)
        security_id == lookup_sd(S.sd_set.nodes, hash, S.sd_set.root)
        n == S.sd.num_entries
        \* new = MALLOC(sizeof(*new)), filled at lines 146-149
        new == Len(S.sd_set.nodes) + 1
        newnode == [security_id |-> n, hash |-> hash, left |-> NULL, right |-> NULL]
        h1 == [S.heap EXCEPT !.nodes = @ + 1]
        \* descr_copy = MALLOC(size); memcpy(descr_copy, descriptor, size)
        h2 == [h1 EXCEPT !.blobs = @ + 1]
        descr_copy == SubSeq(descriptor, 1, size)
        \* REALLOC(sd->descriptors, ...) succeeded: sd->descriptors = descriptors
        sd1 == [S.sd EXCEPT !.descriptors = GrowTo(@, n + 1)]
        \* REALLOC(sd->sizes, ...) succeeded: sd->sizes = sizes
        sd2 == [sd1 EXCEPT !.sizes = GrowTo(@, n + 1)]
        sd3 == [sd2 EXCEPT !.descriptors[n + 1] = descr_copy,
                           !.sizes[n + 1] = size,
                           !.num_entries = n + 1,
                           !.total_length = @ + size + SizeofSize]
        nodes1 == Append(S.sd_set.nodes, newnode)
    IN
    IF security_id >= 0 THEN [S |-> S, ret |-> security_id]
    ELSE IF fail = "node" THEN [S |-> S, ret |-> -1]
    ELSE IF fail = "descr_copy" THEN
        [S |-> [S EXCEPT !.heap = out_free_node(h1)], ret |-> -1]
    ELSE IF fail = "descriptors" THEN
        [S |-> [S EXCEPT !.heap = out_free_descr(h2)], ret |-> -1]
    ELSE IF fail = "sizes" THEN
        \* sd->descriptors already points to the grown array
        [S |-> [S EXCEPT !.sd = sd1, !.heap = out_free_descr(h2)], ret |-> -1]
    ELSE
        [S |-> [sd |-> sd3,
                sd_set |->
                    IF S.sd_set.root # NULL
                    \* line 168: insert_sd_node(sd_set->root, new)
                    THEN [root |-> S.sd_set.root,
                          nodes |-> insert_sd_node(nodes1, S.sd_set.root, new)]
                    ELSE [root |-> new, nodes |-> nodes1],
                heap |-> h2],
         ret |-> nodes1[new].security_id]

\* The security descriptors of the model.
Descriptors == ByteStrings(1, MaxSdLen)

\* The history after one more call sd_set_add_sd(d) that returned ret:
\* calls counts the calls, last is the call just made, ids[d] the identifiers
\* returned for d so far, uniq the distinct descriptors in the order in which
\* each was first submitted successfully.
SdRecord(h, d, rv) ==
    [calls |-> h.calls + 1,
     last  |-> [descriptor |-> d, ret |-> rv],
     ids   |-> IF rv >= 0 THEN [h.ids EXCEPT ![d] = @ \cup {rv}] ELSE h.ids,
     uniq  |-> IF rv >= 0 /\ \A i \in 1..Len(h.uniq) : h.uniq[i] # d
               THEN Append(h.uniq, d) ELSE h.uniq]

NoCall == [descriptor |-> <<>>, ret |-> 0]

SdInit ==
    /\ sd = [descriptors |-> <<>>, sizes |-> <<>>, num_entries |-> 0, total_length |-> 0]
    /\ sd_set = [root |-> NULL, nodes |-> <<>>]
    /\ heap = [nodes |-> 0, blobs |-> 0]
    /\ sd_hist = [calls |-> 0, last |-> NoCall,
                  ids |-> [d \in Descriptors |-> {}], uniq |-> <<>>]

SdState == [sd |-> sd, sd_set |-> sd_set, heap |-> heap]

\* One call sd_set_add_sd(&tree, d, size of d).
AddSd ==
    /\ sd_hist.calls < MaxCalls
    /\ \E d \in Descriptors, fail \in SdFailPoints :
        LET r == sd_set_add_sd(SdState, d, Len(d), fail) IN
        /\ (lookup_sd(sd_set.nodes, Sha1(d), sd_set.root) >= 0) => fail = "none"
        /\ sd' = r.S.sd
        /\ sd_set' = r.S.sd_set
        /\ heap' = r.S.heap
        /\ sd_hist' = SdRecord(sd_hist, d, r.ret)


(***************************************************************************)
(* Claims about the security descriptor index.                             *)
(***************************************************************************)
\* The entries of the descriptor table: descriptors[i], sizes[i], i < num_entries
Entries(t) == [i \in 1..t.num_entries |-> <<t.descriptors[i], t.sizes[i]>>]

\* C1: two sd_set_add_sd calls given the same descriptor bytes return the
\* same identifier, and the descriptor table never holds two entries with the
\* same bytes: num_entries is the number of distinct descriptors submitted.
C1_NoDuplicateDescriptors ==
    /\ \A d \in Descriptors : Cardinality(sd_hist.ids[d]) <= 1
    /\ \A i, j \in 1..sd.num_entries :
        sd.descriptors[i] = sd.descriptors[j] => i = j
    /\ sd.num_entries = Len(sd_hist.uniq)

\* C4: the k-th unique descriptor, in the order of first submission, gets
\* the identifier k-1, and no other identifier later.
C4_DenseIdentifiers ==
    \A k \in 1..Len(sd_hist.uniq) : sd_hist.ids[sd_hist.uniq[k]] = {k - 1}

\* The nodes of the index tree reachable from root.
RECURSIVE Reachable(_, _)
Reachable(nodes, root) ==
    IF root = NULL THEN {}
    ELSE {root} \cup Reachable(nodes, nodes[root].left)
                \cup Reachable(nodes, nodes[root].right)

\* The index tree as lookup_sd sees it: the reachable nodes with their links.
Tree(t) == [r \in Reachable(t.nodes, t.root) |-> t.nodes[r]]

\* C5: a call of sd_set_add_sd that returns -1 leaves the table (entries,
\* sizes, num_entries, total_length) and the index tree as they were, and
\* no node and no descriptor copy stays allocated.
C5_FailedInsertLeavesNoTrace ==
    [][(sd_hist'.calls = sd_hist.calls + 1 /\ sd_hist'.last.ret = -1) =>
          /\ Entries(sd') = Entries(sd)
          /\ sd'.num_entries = sd.num_entries
          /\ sd'.total_length = sd.total_length
          /\ sd_set'.root = sd_set.root
          /\ Tree(sd_set') = Tree(sd_set)
          /\ heap' = heap]_vars

\* C5's case: a call failed at the growth of the sizes array, after the
\* descriptors array was grown, on an index that holds entries.
C5_Witness ==
    /\ sd_hist.last.ret = -1
    /\ sd.num_entries >= 2
    /\ Len(sd.descriptors) > Len(sd.sizes)

(***************************************************************************)
(* Text: names are sequences of runs [u, n], n copies of the code unit or  *)
(* byte u, so that long names stay small in the model.                     *)
(***************************************************************************)
RECURSIVE RunsLen(_)
RunsLen(r) == IF r = <<>> THEN 0 ELSE r[1].n + RunsLen(Tail(r))

\* The first k bytes of r.
RECURSIVE Prefix(_, _)
Prefix(r, k) ==
    IF k <= 0 \/ r = <<>> THEN <<>>
    ELSE IF r[1].n <= k THEN <<r[1]>> \o Prefix(Tail(r), k - r[1].n)
    ELSE <<[u |-> r[1].u, n |-> k]>>

\* r with adjacent runs of the same byte merged: equal byte strings have
\* one representation.
RECURSIVE Norm(_)
Norm(r) ==
    IF Len(r) <= 1 THEN r
    ELSE LET t == Norm(Tail(r)) IN
         IF r[1].u = t[1].u
         THEN <<[u |-> r[1].u, n |-> r[1].n + t[1].n]>> \o Tail(t)
         ELSE <<r[1]>> \o t

\* An unpaired surrogate: a code unit no UTF-16 string may hold alone.
IsSurrogate(u) == u >= 55296 /\ u <= 57343

\* The UTF-8 bytes of one code unit of the basic plane.
Utf8OfUnit(u) ==
    IF u < 128 THEN <<u>>
    ELSE IF u < 2048 THEN <<192 + (u \div 64), 128 + (u % 64)>>
    ELSE <<224 + (u \div 4096), 128 + ((u \div 64) % 64), 128 + (u % 64)>>

RECURSIVE Repeat(_, _)
Repeat(s, n) == IF n = 0 THEN <<>> ELSE s \o Repeat(s, n - 1)

RECURSIVE Utf8OfRuns(_)
Utf8OfRuns(r) ==
    IF r = <<>> THEN <<>>
    ELSE LET b == Utf8OfUnit(r[1].u) IN
         (IF Len(b) = 1 THEN <<[u |-> b[1], n |-> r[1].n]>>
          ELSE Repeat([i \in 1..Len(b) |-> [u |-> b[i], n |-> 1]], r[1].n))
         \o Utf8OfRuns(Tail(r))

\* utf16_to_utf8(name, ...): the UTF-8 string of a UTF-16 name, or NULL when
\* the name is no valid UTF-16 or the allocation of the result fails.  The
\* result is [null, s]: the pointer is NULL, or points to the string s.
utf16_to_utf8(name, nomem) ==
    IF nomem \/ \E i \in 1..Len(name) : IsSurrogate(name[i].u)
    THEN [null |-> TRUE, s |-> <<>>]
    ELSE [null |-> FALSE, s |-> Norm(Utf8OfRuns(name))]

(***************************************************************************)
(* The capture of the streams of one inode into the lookup table.          *)
(* T is [dentries, ltes, table]: the dentry and lookup table entry objects *)
(* allocated so far and the set of entries the lookup table holds.         *)
(***************************************************************************)
Min(a, b) == IF a < b THEN a ELSE b

\* The bytes ntfs_attr_sha1sum feeds to sha1_update, read by read.
RECURSIVE sha1_reads(_, _)
sha1_reads(data, pos) ==
    IF Len(data) - pos = 0 THEN <<>>
    ELSE LET to_read == Min(Len(data) - pos, ShaBufSize) IN
         SubSeq(data, pos + 1, pos + to_read) \o sha1_reads(data, pos + to_read)

\* ntfs_attr_sha1sum(ni, ar, md): the digest of the attribute's data, or an
\* error when the attribute cannot be opened or a read fails.
ntfs_attr_sha1sum(data, fail) ==
    IF fail = "attr_open" THEN [ret |-> WIMLIB_ERR_NTFS_3G, md |-> NULL]
    ELSE IF fail = "pread" /\ Len(data) > 0 THEN [ret |-> WIMLIB_ERR_NTFS_3G, md |-> NULL]
    ELSE [ret |-> 0, md |-> Sha1(sha1_reads(data, 0))]

\* __lookup_resource(lookup_table, hash): the entry of the table with this
\* digest, or NULL
lookup_resource(T, hash) ==
    IF \E l \in T.table : T.ltes[l].hash = hash
    THEN CHOOSE l \in T.table : T.ltes[l].hash = hash
    ELSE NULL

\* new_lookup_table_entry(): a fresh entry, referenced once
new_lookup_table_entry ==
    [hash |-> NULL, refcnt |-> 1, size |-> 0, ntfs_loc |-> NULL, live |-> TRUE]

\* lookup_table_insert(lookup_table, lte)
lookup_table_insert(tbl, lte) == tbl \cup {lte}

\* free_lookup_table_entry(lte): the memory of the entry is released
free_lookup_table_entry(es, lte) == [es EXCEPT ![lte].live = FALSE]

\* lte_reuse without the increment of the reference count.
lte_reuse_no_increment(es, lte) == es

\* lines 266-267: an identical stream exists already, lte->refcnt++
lte_reuse(es, lte) == [es EXCEPT ![lte].refcnt = @ + 1]

\* lines 272-295: the location and the lookup table entry of a new stream
lte_create(st, hash, loc_path) ==
    [new_lookup_table_entry EXCEPT
        !.ntfs_loc = [path_utf8 |-> loc_path,
                      stream_name_utf16 |-> st.name,
                      stream_name_utf16_num_chars |-> RunsLen(st.name)],
        !.size = Len(st.data),
        !.hash = hash]

\* dentry_add_ads(dentry, stream_name): a new named stream entry at the end
\* of the dentry's, with the name copied from stream_name
dentry_add_ads(ds, d, stream_name) ==
    [ds EXCEPT ![d].ads = Append(@, [name |-> stream_name, lte |-> NULL])]

\* What a read of freed memory finds in place of the string freed.
Garbage == <<[u |-> 0, n |-> 1]>>

\* The faults one iteration of the loop of capture_ntfs_streams can meet.
StreamFaults ==
    {"none", "attr_open", "pread", "ntfs_loc", "path_utf8", "stream_name", "lte",
     "utf8", "add_ads"}

\* lines 298-314: the entry is attached to the dentry, as its unnamed stream
\* or as a new named stream.  readback is what dentry_add_ads reads from
\* stream_name_utf8, freed at line 308: "intact" or "garbage".
attach_stream(T, d, st, lte, fail, readback) ==
    IF RunsLen(st.name) = 0 THEN
        [T |-> [T EXCEPT !.dentries[d].lte = lte], ret |-> 0, out |-> "loop", lte |-> lte]
    ELSE
        LET stream_name_utf8 == utf16_to_utf8(st.name, fail = "utf8")
            read == IF readback = "intact" THEN stream_name_utf8.s ELSE Garbage
            added == dentry_add_ads(T.dentries, d, read)
            k == Len(added[d].ads)
        IN
        IF stream_name_utf8.null \/ fail = "add_ads" THEN
            [T |-> T, ret |-> WIMLIB_ERR_NOMEM, out |-> "out_free_lte", lte |-> lte]
        ELSE
            [T |-> [T EXCEPT !.dentries = [added EXCEPT ![d].ads[k].lte = lte]],
             ret |-> 0, out |-> "loop", lte |-> lte]

\* One iteration of the loop of capture_ntfs_streams (lines 257-314) on the
\* stream st.  out is where the iteration ends: "loop" (the next iteration)
\* or the label it jumps to; lte is the entry the iteration leaves in lte.
capture_stream(T, d, st, loc_path, fail, readback) ==
    LET sum == ntfs_attr_sha1sum(st.data, fail)
        found == lookup_resource(T, sum.md)
        new == Len(T.ltes) + 1
        T_hit == [T EXCEPT !.ltes = lte_reuse(@, found)]
        T_new == [T EXCEPT !.ltes = Append(@, lte_create(st, sum.md, loc_path)),
                           !.table = lookup_table_insert(@, new)]
    IN
    IF sum.ret # 0 THEN [T |-> T, ret |-> sum.ret, out |-> "out_put_actx", lte |-> NULL]
    ELSE IF found # NULL THEN attach_stream(T_hit, d, st, found, fail, readback)
    ELSE IF fail = "ntfs_loc" THEN
        [T |-> T, ret |-> WIMLIB_ERR_NOMEM, out |-> "out_put_actx", lte |-> NULL]
    ELSE IF fail \in {"path_utf8", "stream_name", "lte"} THEN
        [T |-> T, ret |-> WIMLIB_ERR_NOMEM, out |-> "out_free_ntfs_loc", lte |-> NULL]
    ELSE attach_stream(T_new, d, st, new, fail, readback)

\* capture_ntfs_streams(dentry, ni, path, path_len, lookup_table, ...) from
\* the i-th stream of the inode on.  f is the fault met: [at, kind], at the
\* at-th stream (at 0: ntfs_attr_get_search_ctx fails); rb[i] is what is read
\* back of the freed name of the i-th stream.  The result is [T, ret, ub,
\* met]; ub tells that out_free_ntfs_loc was reached, which reads the outer
\* ntfs_loc, a variable that is never assigned; met that the fault was met.
RECURSIVE capture_loop(_, _, _, _, _, _, _)
capture_loop(T, d, streams, i, loc_path, f, rb) ==
    IF i > Len(streams) THEN [T |-> T, ret |-> 0, ub |-> FALSE, met |-> FALSE]
    ELSE LET kind == IF f.at = i THEN f.kind ELSE "none"
             r == capture_stream(T, d, streams[i], loc_path, kind, rb[i])
             \* the iteration ended at the fault, not at a name that is no UTF-16
             met == kind # "none" /\ ~(r.out = "out_free_lte" /\
                                       utf16_to_utf8(streams[i].name, FALSE).null)
         IN
         IF r.out = "loop" THEN capture_loop(r.T, d, streams, i + 1, loc_path, f, rb)
         ELSE IF r.out = "out_free_lte" THEN
            [T |-> [r.T EXCEPT !.ltes = free_lookup_table_entry(@, r.lte)],
             ret |-> r.ret, ub |-> TRUE, met |-> met]
         ELSE [T |-> r.T, ret |-> r.ret, ub |-> r.out = "out_free_ntfs_loc", met |-> met]

capture_ntfs_streams(T, d, streams, loc_path, f, rb) ==
    IF f.at = 0 /\ f.kind = "actx"
    THEN [T |-> T, ret |-> WIMLIB_ERR_NTFS_3G, ub |-> FALSE, met |-> TRUE]
    ELSE capture_loop(T, d, streams, 1, loc_path, f, rb)

(***************************************************************************)
(* The tree builder.                                                       *)
(***************************************************************************)
Max(a, b) == IF a > b THEN a ELSE b

\* The string of n code units u.
Name(u, n) == <<[u |-> u, n |-> n]>>

\* The names of the files of the volume, in UTF-16, in the order of the
\* directory index: "a", "aa", a long name and a name that is no valid UTF-16.
\* A directory holds any of them, and ntfs_readdir enumerates in this order.
FileNames == <<Name(97, 1), Name(97, 2), Name(120, LongNameLen), Name(55296, 1)>>

Stream(name, data) == [name |-> name, data |-> data]

\* The streams of one type an inode of the volume may hold: the unnamed one
\* first, then the named ones.
TreeStreams(type) ==
    IF type = "AT_REPARSE_POINT" THEN {<<Stream(<<>>, <<1>>)>>}
    ELSE {<<Stream(<<>>, <<0>>)>>,
          <<Stream(<<>>, <<1>>), Stream(Name(233, 1), <<0>>)>>}

\* The names of the named streams of the volume, in UTF-16, in the order of
\* the attribute records: "e" with an acute accent, and a name that is no
\* valid UTF-16.
StreamNames == <<Name(233, 1), Name(55296, 1)>>

\* The contents of the streams: empty or not.
Data == {<<>>, <<0>>}

\* The named streams an inode may hold: any of the names from the k-th on,
\* in order, each with any content.
RECURSIVE NamedStreamsFrom(_)
NamedStreamsFrom(k) ==
    IF k > Len(StreamNames) THEN {<<>>}
    ELSE LET rest == NamedStreamsFrom(k + 1) IN
         rest \cup {<<Stream(StreamNames[k], x)>> \o t : x \in Data, t \in rest}

NamedStreams == NamedStreamsFrom(1)

\* The attribute records of one type of an inode: a reparse point holds one
\* unnamed reparse attribute, a file its unnamed stream and its named ones.
Streams(type) ==
    IF type = "AT_REPARSE_POINT" THEN {<<Stream(<<>>, x)>> : x \in Data}
    ELSE {<<Stream(<<>>, x)>> \o t : x \in Data, t \in NamedStreams}

\* The inode of the root directory; the other inodes are numbered from it.
RootNi == 1

\* ni->security_id of the raw inode record: the identifier NTFS gave
ni_security_id(ni) == 256 + ni

\* What ntfs_inode_get_security returns: libntfs-3g returns 0 on an error and
\* a nonzero value otherwise ("zero_is_error"); this file declares the
\* function without stating either, and returns its result as its own, so
\* that the opposite convention is modelled as well.
Conventions == {"zero_is_error", "zero_is_ok"}
SecurityRet(conv, ok) == IF (conv = "zero_is_ok") = ok THEN 0 ELSE 1

\* new_dentry(name): a dentry with no metadata, no stream and no child
new_dentry(name) ==
    [name |-> name, times |-> 0, security_id |-> -1, attributes |-> {},
     hard_link |-> 0, resolved |-> FALSE, lte |-> NULL, ads |-> <<>>,
     children |-> <<>>, parent |-> NULL]

\* link_dentry(child, parent): child becomes the last child of parent
link_dentry(ds, child, parent) ==
    [ds EXCEPT ![parent].children = Append(@, child), ![child].parent = parent]

\* lines 401-412: the metadata of the inode is copied to the dentry
read_metadata(dentry, ni, attributes) ==
    [dentry EXCEPT !.times = ni,
                   !.security_id = ni_security_id(ni),
                   !.attributes = attributes,
                   !.hard_link = ni,
                   !.resolved = TRUE]

\* classify with the directory flag tested before the reparse bit.
classify_dir_first(attributes, mrec_flags) ==
    IF "MFT_RECORD_IS_DIRECTORY" \in mrec_flags THEN "dir"
    ELSE IF "FILE_ATTR_REPARSE_POINT" \in attributes THEN "reparse"
    ELSE "file"

\* lines 414, 419, 434: what __build_dentry_tree_ntfs does with the inode
classify(attributes, mrec_flags) ==
    IF "FILE_ATTR_REPARSE_POINT" \in attributes THEN "reparse"
    ELSE IF "MFT_RECORD_IS_DIRECTORY" \in mrec_flags THEN "dir"
    ELSE "file"

\* path_append with the name copied to the start of the buffer.
path_append_at_start(p, path_len, utf8_name) ==
    [buf |-> Norm(utf8_name),
     hi  |-> Max(p.hi, RunsLen(utf8_name) + 1)]

\* lines 377-378: the child's name is copied behind the parent's path
path_append(p, path_len, utf8_name) ==
    [buf |-> Norm(Prefix(p.buf, path_len) \o utf8_name),
     hi  |-> Max(p.hi, path_len + RunsLen(utf8_name) + 1)]

Frame(dentry, ni, path_len) ==
    [dentry |-> dentry, ni |-> ni, path_len |-> path_len, pos |-> 0, type |-> "none"]

Top == stack[Len(stack)]

\* What the history holds of a dentry.  entry_path is the path the buffer
\* held, up to path_len, when __build_dentry_tree_ntfs was entered for it;
\* sd_seq the rank of its call of sd_set_add_sd among all of them.
NewAudit(ni) ==
    [ni |-> ni, reparse |-> FALSE, isdir |-> FALSE, type |-> "none", captures |-> 0,
     enumerated |-> FALSE, state |-> "new", cret |-> 0, streams |-> <<>>,
     capret |-> 0,
     obj_sd |-> <<>>, read_ok |-> FALSE, sd_ret |-> -2, linked |-> FALSE,
     child_failed |-> FALSE, after_fail |-> 0, cb_ret |-> 0,
     entry_path |-> <<>>, sd_seq |-> 0]

CapState == [dentries |-> dentries, ltes |-> ltes, table |-> table]

Init ==
    /\ SdInit
    /\ dentries = <<new_dentry(<<>>)>>
    /\ ltes = <<>>
    /\ table = {}
    /\ path = [buf |-> <<>>, hi |-> 0]
    /\ stack = <<>>
    /\ pc = "start"
    /\ ret = 0
    /\ env = [conv |-> "zero_is_error", nobj |-> 0, faults |-> 0]
    /\ audit = <<NewAudit(RootNi)>>

\* build_dentry_tree_ntfs, lines 470-495: the volume is mounted, its root
\* inode opened, and the capture of the root begins with the path "/".
Mount ==
    /\ pc = "start"
    /\ \E conv \in Conventions, out \in {"ok", "mount_fails", "root_open_fails"} :
        /\ out # "ok" => env.faults < MaxFaults
        /\ env' = [env EXCEPT !.conv = conv,
                              !.faults = @ + (IF out = "ok" THEN 0 ELSE 1)]
        /\ IF out = "ok"
           THEN /\ path' = [buf |-> Name(47, 1), hi |-> 2]
                /\ stack' = <<Frame(1, RootNi, 1)>>
                /\ pc' = "build"
                /\ ret' = ret
                /\ audit' = [audit EXCEPT ![1].entry_path = Name(47, 1)]
           ELSE /\ pc' = "done"
                /\ ret' = WIMLIB_ERR_NTFS_3G
                /\ UNCHANGED <<path, stack, audit>>
    /\ UNCHANGED <<sdvars, dentries, ltes, table>>

\* __build_dentry_tree_ntfs, lines 401-439: the metadata is read and the
\* inode classified.  After a failed ntfs_inode_open the inode is NULL, and
\* what is read through it is anything.
BuildEnter ==
    /\ pc = "build"
    /\ \E attributes \in SUBSET {"FILE_ATTR_REPARSE_POINT"},
          mrec_flags \in SUBSET {"MFT_RECORD_IS_DIRECTORY"} :
        LET d == Top.dentry
            class == classify(attributes, mrec_flags)
            type == IF class = "reparse" THEN "AT_REPARSE_POINT"
                    ELSE IF class = "file" THEN "AT_DATA" ELSE "none"
        IN
        /\ dentries' = [dentries EXCEPT ![d] = read_metadata(@, Top.ni, attributes)]
        /\ stack' = [stack EXCEPT ![Len(stack)].type = type]
        /\ pc' = IF class = "dir" THEN "readdir" ELSE "streams"
        /\ audit' = [audit EXCEPT ![d].reparse = attributes # {},
                                  ![d].isdir = mrec_flags # {},
                                  ![d].state = "running",
                                  ![d].enumerated = (class = "dir")]
    /\ UNCHANGED <<sdvars, ltes, table, path, ret, env>>

\* __build_dentry_tree_ntfs, line 402, on the NULL inode of a failed
\* ntfs_inode_open: the process may end there.
BuildNullInode ==
    /\ pc = "build"
    /\ Top.ni = NULL
    /\ pc' = "crashed"
    /\ UNCHANGED <<sdvars, dentries, ltes, table, path, stack, ret, env, audit>>

NoFault == [at |-> 1, kind |-> "none"]

\* The first stream whose name is no valid UTF-16, or Len(streams) + 1: the
\* loop of capture_ntfs_streams ends there at the latest.
FirstBad(streams) ==
    LET bad == {i \in 1..Len(streams) : utf16_to_utf8(streams[i].name, FALSE).null}
    IN IF bad = {} THEN Len(streams) + 1 ELSE CHOOSE i \in bad : \A j \in bad : i <= j

\* The faults a call of capture_ntfs_streams on these streams can meet, each
\* with what dentry_add_ads reads of the names it is given: only the names
\* of the named streams handled before the loop ends are freed and read.
FaultsAndReadbacks(streams) ==
    {c \in (({NoFault, [at |-> 0, kind |-> "actx"]}
              \cup [at : 1..Min(Len(streams), FirstBad(streams)),
                    kind : StreamFaults \ {"none"}])
            \X [1..Len(streams) -> {"intact", "garbage"}]) :
        \A i \in 1..Len(streams) :
            c[2][i] = "garbage" =>
                /\ streams[i].name # <<>>
                /\ i < FirstBad(streams)
                /\ c[1] # NoFault => i < c[1].at}

\* __build_dentry_tree_ntfs, lines 416-418 and 436-441: the streams of a
\* reparse point or of a file are captured.
CaptureStreams ==
    /\ pc = "streams"
    /\ \E streams \in TreeStreams(Top.type) :
       \E c \in FaultsAndReadbacks(streams) :
        LET d == Top.dentry
            f == c[1]
            rb == c[2]
            loc_path == Prefix(path.buf, Top.path_len)
            r == capture_ntfs_streams(CapState, d, streams, loc_path, f, rb)
        IN
        \E crash \in {FALSE, r.ub} :
        /\ f # NoFault => env.faults < MaxFaults /\ r.met
        /\ env' = [env EXCEPT !.faults = @ + (IF f = NoFault THEN 0 ELSE 1)]
        /\ dentries' = r.T.dentries
        /\ ltes' = r.T.ltes
        /\ table' = r.T.table
        /\ ret' = r.ret
        /\ pc' = IF crash THEN "crashed" ELSE IF r.ret # 0 THEN "return" ELSE "security"
        /\ audit' = [audit EXCEPT ![d].captures = @ + 1,
                                  ![d].type = Top.type,
                                  ![d].streams = streams,
                                  ![d].capret = r.ret]
    /\ UNCHANGED <<sdvars, path, stack>>

\* The faults one call of filldir can meet.
FilldirFaults == {"utf8", "inode_open", "new_dentry"}

\* ntfs_readdir calls filldir for the next child of the directory (lines
\* 359-381).  When filldir returns nonzero at once, ntfs_readdir stops and
\* returns nonzero, and the capture of the directory returns
\* WIMLIB_ERR_NTFS_3G (lines 432-441).
Filldir ==
    /\ pc = "readdir"
    /\ env.nobj < MaxObjects
    /\ \E pos \in (Top.pos + 1)..Len(FileNames), faults \in SUBSET FilldirFaults,
          crash \in BOOLEAN :
        LET d == Top.dentry
            name == FileNames[pos]
            utf8_name == utf16_to_utf8(name, "utf8" \in faults)
            ni == IF "inode_open" \in faults THEN NULL ELSE RootNi + env.nobj + 1
            \* ret = -1 at line 359, ret = 1 at line 371
            ret0 == IF ni = NULL THEN 1 ELSE -1
            child == Len(dentries) + 1
            path_len == Top.path_len + RunsLen(utf8_name.s)
            failed == utf8_name.null \/ "new_dentry" \in faults
            opened == [audit EXCEPT ![d].after_fail =
                                        @ + (IF audit[d].child_failed THEN 1 ELSE 0),
                                    ![d].child_failed = @ \/ failed \/ ni = NULL]
        IN
        /\ env.faults + Cardinality(faults) <= MaxFaults
        /\ utf8_name.null => faults \subseteq {"utf8"}
        /\ crash => ~failed /\ path_len + 1 > PathCap
        /\ env' = [env EXCEPT !.nobj = @ + 1, !.faults = @ + Cardinality(faults)]
        /\ IF failed
           THEN /\ ret' = WIMLIB_ERR_NTFS_3G
                /\ pc' = "return"
                /\ stack' = [stack EXCEPT ![Len(stack)].pos = pos]
                /\ audit' = [opened EXCEPT ![d].cb_ret =
                                IF utf8_name.null THEN -1 ELSE ret0]
                /\ UNCHANGED <<dentries, path>>
           ELSE /\ dentries' = Append(dentries, new_dentry(utf8_name.s))
                /\ path' = path_append(path, Top.path_len, utf8_name.s)
                /\ stack' = Append([stack EXCEPT ![Len(stack)].pos = pos],
                                   Frame(child, ni, path_len))
                /\ pc' = IF crash THEN "crashed" ELSE "build"
                /\ ret' = ret0
                /\ audit' = Append(opened,
                        [NewAudit(ni) EXCEPT !.entry_path = Prefix(path'.buf, path_len)])
    /\ UNCHANGED <<sdvars, ltes, table>>

\* The capture of a child returns to filldir (lines 379-388): the child is
\* linked to its parent and filldir returns what the capture returned;
\* ntfs_readdir goes on when that is 0 and stops otherwise, and then the
\* capture of the directory returns WIMLIB_ERR_NTFS_3G (lines 432-441).
FilldirReturn ==
    /\ pc = "return"
    /\ Len(stack) > 1
    /\ LET c == Top.dentry
           p == stack[Len(stack) - 1].dentry
       IN
       /\ dentries' = link_dentry(dentries, c, p)
       /\ stack' = SubSeq(stack, 1, Len(stack) - 1)
       /\ ret' = IF ret # 0 THEN WIMLIB_ERR_NTFS_3G ELSE 0
       /\ pc' = IF ret # 0 THEN "return" ELSE "readdir"
       /\ audit' = [audit EXCEPT ![c].state = "returned",
                                 ![c].cret = ret,
                                 ![c].linked = TRUE,
                                 ![p].cb_ret = ret,
                                 ![p].child_failed = @ \/ ret # 0]
    /\ UNCHANGED <<sdvars, ltes, table, path, env>>

\* ntfs_readdir has called filldir for every child and returns 0 (lines
\* 431-441).
ReaddirDone ==
    /\ pc = "readdir"
    /\ pc' = "security"
    /\ ret' = 0
    /\ UNCHANGED <<sdvars, dentries, ltes, table, path, stack, env, audit>>

\* The security descriptors of the inodes of the volume.
VolumeDescriptors == {<<0>>, <<1>>}

\* What the two calls of ntfs_inode_get_security do.
SecurityReads == {"ok", "size_fails", "fetch_fails", "both_fail"}
ReadFaults(reads) == IF reads = "ok" THEN 0 ELSE IF reads = "both_fail" THEN 2 ELSE 1

\* __build_dentry_tree_ntfs, lines 442-460: the security descriptor d of the
\* inode is read and given to the index.  When the size query fails, sd_size
\* is read unset (the process may end at the array of that size); when the
\* fetch fails, the bytes g that the array happens to hold are given to the
\* index.
Security ==
    /\ pc = "security"
    /\ \E d \in VolumeDescriptors, g \in VolumeDescriptors, reads \in SecurityReads,
          fail \in SdFailPoints, crash \in BOOLEAN :
        LET dn == Top.dentry
            fetched == reads \in {"ok", "size_fails"}
            bytes == IF fetched THEN d ELSE g
            rv == SecurityRet(env.conv, fetched)
            r == sd_set_add_sd(SdState, bytes, Len(bytes), fail)
            nfaults == ReadFaults(reads) + (IF fail = "none" THEN 0 ELSE 1)
        IN
        /\ env.faults + nfaults <= MaxFaults
        /\ fetched => g = d
        /\ (lookup_sd(sd_set.nodes, Sha1(bytes), sd_set.root) >= 0) => fail = "none"
        /\ crash => reads \in {"size_fails", "both_fail"}
        /\ env' = [env EXCEPT !.faults = @ + nfaults]
        /\ sd' = r.S.sd
        /\ sd_set' = r.S.sd_set
        /\ heap' = r.S.heap
        /\ sd_hist' = SdRecord(sd_hist, bytes, r.ret)
        /\ dentries' = [dentries EXCEPT ![dn].security_id = r.ret]
        /\ ret' = IF r.ret = -1 THEN WIMLIB_ERR_NOMEM ELSE rv
        /\ pc' = IF crash THEN "crashed" ELSE "return"
        /\ audit' = [audit EXCEPT ![dn].obj_sd = d,
                                  ![dn].read_ok = (reads = "ok"),
                                  ![dn].sd_ret = r.ret,
                                  ![dn].sd_seq = sd_hist.calls + 1]
    /\ UNCHANGED <<ltes, table, path, stack>>

\* build_dentry_tree_ntfs, lines 496-504: the capture of the root returned;
\* the volume is unmounted.
Unmount ==
    /\ pc = "return"
    /\ Len(stack) = 1
    /\ \E umount_fails \in BOOLEAN :
        /\ umount_fails => env.faults < MaxFaults
        /\ env' = [env EXCEPT !.faults = @ + (IF umount_fails THEN 1 ELSE 0)]
        /\ ret' = IF umount_fails /\ ret = 0 THEN WIMLIB_ERR_NTFS_3G ELSE ret
    /\ stack' = <<>>
    /\ pc' = "done"
    /\ audit' = [audit EXCEPT ![1].state = "returned", ![1].cret = ret]
    /\ UNCHANGED <<sdvars, dentries, ltes, table, path>>

(***************************************************************************)
(* SpecStreams: capture_ntfs_streams on one inode after the other, each    *)
(* with a dentry of its own, until a call fails.                           *)
(***************************************************************************)
CaptureInode ==
    /\ pc = "start"
    /\ ret = 0
    /\ Len(dentries) - 1 < MaxInodes
    /\ \E type \in {"AT_DATA", "AT_REPARSE_POINT"} :
       \E streams \in Streams(type) :
       \E c \in FaultsAndReadbacks(streams) :
        LET d == Len(dentries) + 1
            f == c[1]
            rb == c[2]
            utf8_name == utf16_to_utf8(FileNames[d - 1], FALSE).s
            loc_path == Norm(Name(47, 1) \o utf8_name)
            T == [CapState EXCEPT !.dentries = Append(@, new_dentry(utf8_name))]
            r == capture_ntfs_streams(T, d, streams, loc_path, f, rb)
        IN
        \E crash \in {FALSE, r.ub} :
        /\ f # NoFault => env.faults < MaxFaults /\ r.met
        /\ env' = [env EXCEPT !.faults = @ + (IF f = NoFault THEN 0 ELSE 1)]
        /\ dentries' = r.T.dentries
        /\ ltes' = r.T.ltes
        /\ table' = r.T.table
        /\ ret' = r.ret
        /\ pc' = IF crash THEN "crashed" ELSE "start"
        /\ audit' = Append(audit, [NewAudit(RootNi + d - 1) EXCEPT
                                      !.captures = 1,
                                      !.type = type,
                                      !.streams = streams,
                                      !.capret = r.ret])
    /\ UNCHANGED <<sdvars, path, stack>>

StreamsNext == CaptureInode

SpecStreams == Init /\ [][StreamsNext]_vars

(***************************************************************************)
(* SpecSD: any sequence of sd_set_add_sd calls on one index.               *)
(***************************************************************************)
SdNext == AddSd /\ UNCHANGED capvars

SpecSD == Init /\ [][SdNext]_vars

(***************************************************************************)
(* Spec: the capture of a volume.                                          *)
(***************************************************************************)
Next ==
    \/ Mount
    \/ BuildEnter
    \/ BuildNullInode
    \/ CaptureStreams
    \/ Filldir
    \/ FilldirReturn
    \/ ReaddirDone
    \/ Security
    \/ Unmount

Spec == Init /\ [][Next]_vars

(***************************************************************************)
(* Claims about the capture of streams.                                    *)
(***************************************************************************)
\* The streams captured so far: <<d, i>> is the i-th stream of the inode of
\* dentry d.
Captured ==
    {p \in (1..Len(dentries)) \X (1..(Len(StreamNames) + 1)) :
        audit[p[1]].captures = 1 /\ p[2] <= Len(audit[p[1]].streams)}

StreamOf(p) == audit[p[1]].streams[p[2]]

\* Every call of capture_ntfs_streams so far returned 0.
AllCapturesOk == \A d \in 1..Len(dentries) : audit[d].capret = 0

\* The entry attached to the dentry for a captured stream: the unnamed
\* stream is the first of the inode, the named ones follow in order.
Attached(p) ==
    IF StreamOf(p).name = <<>> THEN dentries[p[1]].lte
    ELSE dentries[p[1]].ads[p[2] - 1].lte

\* C2: two captured streams with identical bytes, zero-length streams
\* included, are attached to the same lookup table entry; the table never
\* holds two entries with one digest; and once the captures returned, the
\* reference count of an entry is the number of captured streams attached
\* to it.
C2_IdenticalStreamsShareEntry ==
    /\ \A l1, l2 \in table : ltes[l1].hash = ltes[l2].hash => l1 = l2
    /\ AllCapturesOk =>
        /\ \A p \in Captured :
            /\ Attached(p) \in table
            /\ ltes[Attached(p)].live
            /\ ltes[Attached(p)].hash = Sha1(StreamOf(p).data)
        /\ \A p, q \in Captured :
            StreamOf(p).data = StreamOf(q).data => Attached(p) = Attached(q)
        /\ \A l \in table :
            ltes[l].refcnt = Cardinality({p \in Captured : Attached(p) = l})

\* C2's case: an empty unnamed stream of one inode and an empty named
\* stream of another share an entry that a third stream refers to as well.
C2_Witness ==
    /\ AllCapturesOk
    /\ \E p, q \in Captured :
        /\ p[1] # q[1]
        /\ StreamOf(p).name = <<>>
        /\ StreamOf(q).name # <<>>
        /\ StreamOf(p).data = <<>>
        /\ StreamOf(q).data = <<>>
        /\ Attached(p) = Attached(q)
        /\ ltes[Attached(p)].refcnt >= 3

\* C8: after a successful capture_ntfs_streams the unnamed stream's entry is
\* the dentry's, and the dentry has one named stream entry per named stream,
\* in order, with the stream's name in UTF-8 and the entry of its content; a
\* named stream whose bytes differ from the unnamed stream's has another
\* entry than the unnamed stream.
C8_NamedStreamsAttached ==
    \A d \in 1..Len(dentries) :
        (audit[d].captures = 1 /\ audit[d].capret = 0) =>
            LET streams == audit[d].streams IN
            /\ ltes[dentries[d].lte].hash = Sha1(streams[1].data)
            /\ Len(dentries[d].ads) = Len(streams) - 1
            /\ \A i \in 2..Len(streams) :
                /\ dentries[d].ads[i - 1].name = utf16_to_utf8(streams[i].name, FALSE).s
                /\ ltes[dentries[d].ads[i - 1].lte].hash = Sha1(streams[i].data)
                /\ streams[i].data # streams[1].data =>
                        dentries[d].ads[i - 1].lte # dentries[d].lte

(***************************************************************************)
(* Claims about the tree builder.                                          *)
(***************************************************************************)
Dentries == 1..Len(dentries)

\* The call of __build_dentry_tree_ntfs for d is not the innermost one: the
\* capture of a child of d is under way.
ChildUnderWay(d) == \E i \in 1..(Len(stack) - 1) : stack[i].dentry = d

\* C3: a child is linked to its parent only when its capture returned
\* success, with its metadata read and its security identifier resolved.
C3_OnlyBuiltChildrenLinked ==
    \A d \in Dentries : \A i \in 1..Len(dentries[d].children) :
        LET c == dentries[d].children[i] IN
        /\ audit[c].state = "returned"
        /\ audit[c].cret = 0
        /\ dentries[c].resolved
        /\ dentries[c].security_id >= 0

\* C6: no write to the path buffer ends beyond its 4096 bytes.
C6_PathWithinBuffer == path.hi <= PathCap

\* C7: once the handling of a child of a directory failed, filldir returns
\* nonzero, no later child of the directory is opened, and the capture of
\* the directory returns an error without its security descriptor resolved.
C7_FailFast ==
    \A d \in Dentries :
        audit[d].child_failed =>
            /\ audit[d].after_fail = 0
            /\ audit[d].sd_ret = -2
            /\ ~ChildUnderWay(d) /\ pc # "crashed" => audit[d].cb_ret # 0
            /\ audit[d].state = "returned" => audit[d].cret # 0

\* C9: an inode with the reparse bit is captured once, through the reparse
\* attribute, and never enumerated, directory or not; a directory without
\* the reparse bit is enumerated and its streams are not captured; any
\* other inode is captured once, through the data attribute.
C9_ThreeWayClassification ==
    \A d \in Dentries :
        audit[d].state # "new" =>
            IF audit[d].reparse THEN
                /\ ~audit[d].enumerated
                /\ dentries[d].children = <<>>
                /\ audit[d].captures <= 1
                /\ audit[d].captures = 1 => audit[d].type = "AT_REPARSE_POINT"
                /\ audit[d].state = "returned" => audit[d].captures = 1
            ELSE IF audit[d].isdir THEN
                /\ audit[d].enumerated
                /\ audit[d].captures = 0
                /\ dentries[d].lte = NULL
            ELSE
                /\ ~audit[d].enumerated
                /\ dentries[d].children = <<>>
                /\ audit[d].captures <= 1
                /\ audit[d].captures = 1 => audit[d].type = "AT_DATA"
                /\ audit[d].state = "returned" => audit[d].captures = 1

\* C9's case: the capture of an inode that is a reparse point and a
\* directory returned, below a directory that was enumerated.
C9_Witness ==
    \E d \in Dentries :
        /\ audit[d].reparse
        /\ audit[d].isdir
        /\ audit[d].state = "returned"
        /\ audit[d].captures = 1
        /\ dentries[d].lte # NULL
        /\ dentries[d].parent # NULL
        /\ audit[dentries[d].parent].enumerated

\* C10: after the capture of an inode returned success, the security
\* identifier of its dentry is the one the index returned for the inode's
\* descriptor, and the entry of the table with this identifier holds the
\* bytes and the length of that descriptor.
C10_SecurityIdFromIndex ==
    \A d \in Dentries :
        (audit[d].state = "returned" /\ audit[d].cret = 0) =>
            /\ audit[d].sd_ret >= 0
            /\ dentries[d].security_id = audit[d].sd_ret
            /\ sd.descriptors[audit[d].sd_ret + 1] = audit[d].obj_sd
            /\ sd.sizes[audit[d].sd_ret + 1] = Len(audit[d].obj_sd)

\* C11: while a call of __build_dentry_tree_ntfs with path length L is under
\* way, and when it returns, the first L bytes of the path buffer are the
\* bytes they were when the call was entered, whatever filldir and the calls
\* below wrote.
C11_PathPrefixKept ==
    \A i \in 1..Len(stack) :
        /\ RunsLen(audit[stack[i].dentry].entry_path) = stack[i].path_len
        /\ Prefix(path.buf, stack[i].path_len) = audit[stack[i].dentry].entry_path

\* C11's case: the capture of a directory below the root goes on after the
\* capture of a child of it wrote its name to the buffer and returned.
C11_Witness ==
    /\ Len(stack) = 2
    /\ pc = "readdir"
    /\ Len(dentries[Top.dentry].children) = 1
    /\ Top.path_len > 1
    /\ RunsLen(path.buf) > Top.path_len

\* C12: the capture is deterministic: on the same volume and the same
\* lookup table, with no fault met, the capture of the streams of an inode
\* has one result only (the dentry with its stream entries, the lookup table
\* entries, the table and the value returned), so that a second capture of
\* the volume yields what the first one did.
C12_CaptureIsDeterministic ==
    [][(pc = "streams" /\ pc' # "crashed" /\ env'.faults = env.faults) =>
          \A c \in FaultsAndReadbacks(audit'[Top.dentry].streams) :
              c[1] = NoFault =>
                  LET again == capture_ntfs_streams(CapState, Top.dentry,
                                    audit'[Top.dentry].streams,
                                    Prefix(path.buf, Top.path_len), NoFault, c[2])
                  IN
                  /\ again.T.dentries = dentries'
                  /\ again.T.ltes = ltes'
                  /\ again.T.table = table'
                  /\ again.ret = ret']_vars

\* The hard errors of the capture.
HardErrors == {WIMLIB_ERR_NOMEM, WIMLIB_ERR_NTFS_3G}

\* C13: a hard error returned by the capture of an inode is returned
\* unchanged by the capture of its parent directory, at every depth, and by
\* build_dentry_tree_ntfs: WIMLIB_ERR_NOMEM stays WIMLIB_ERR_NOMEM and
\* WIMLIB_ERR_NTFS_3G stays WIMLIB_ERR_NTFS_3G.
C13_ErrorPropagatedUnchanged ==
    /\ \A c \in Dentries :
        LET p == dentries[c].parent IN
        (/\ audit[c].state = "returned"
         /\ audit[c].cret \in HardErrors
         /\ p # NULL
         /\ audit[p].state = "returned") => audit[p].cret = audit[c].cret
    /\ (pc = "done" /\ audit[1].cret \in HardErrors) => ret = audit[1].cret

\* The full path of the inode of the i-th call on the stack: the root path
\* "/", then the names of the directories entered and its own name, as path
\* components separated by "/".
RECURSIVE FullPath(_)
FullPath(i) ==
    IF i = 1 THEN Name(47, 1)
    ELSE Norm(FullPath(i - 1) \o (IF i > 2 THEN Name(47, 1) ELSE <<>>)
                              \o dentries[stack[i].dentry].name)

\* C14: at every depth the path the buffer holds for the inode being
\* captured, which is the path copied to the location of a new lookup table
\* entry, is the full path of the inode; and no two inodes are captured
\* under the same path.
C14_BufferHoldsFullPath ==
    /\ \A i \in 1..Len(stack) :
        Prefix(path.buf, stack[i].path_len) = FullPath(i)
    /\ \A d1, d2 \in Dentries :
        (d1 # d2 /\ audit[d1].entry_path # <<>> /\ audit[d2].entry_path # <<>>)
            => audit[d1].entry_path # audit[d2].entry_path

\* C15: after any sequence of sd_set_add_sd calls the index tree mirrors the
\* table: for every entry i of the table exactly one node reachable from
\* sd_set->root has the identifier i, its hash is the digest of the bytes of
\* entry i, and the search from the root for this digest ends at it (the
\* reachable nodes are in search order).
C15_TreeMirrorsTable ==
    \A i \in 0..(sd.num_entries - 1) :
        LET hash == Sha1(sd.descriptors[i + 1])
            at == {r \in Reachable(sd_set.nodes, sd_set.root) :
                        sd_set.nodes[r].security_id = i}
        IN
        /\ Cardinality(at) = 1
        /\ \A r \in at : sd_set.nodes[r].hash = hash
        /\ lookup_sd(sd_set.nodes, hash, sd_set.root) = i

\* The lookup table entries the dentry d refers to: that of its unnamed
\* stream and those of its named streams.
RefersTo(d) ==
    {l \in 1..Len(ltes) :
        \/ dentries[d].lte = l
        \/ \E k \in 1..Len(dentries[d].ads) : dentries[d].ads[k].lte = l}

\* C16: a later call of capture_ntfs_streams that fails on a stream whose
\* digest the table held already releases nothing: the entries that the
\* dentries captured before refer to stay live entries of the table.
C16_HitReferenceKept ==
    \A d \in Dentries :
        (audit[d].captures = 1 /\ audit[d].capret = 0) =>
            \A l \in RefersTo(d) : l \in table /\ ltes[l].live

\* C20: when capture_ntfs_streams fails after it created a lookup table
\* entry and inserted it into the table, the entry it releases (one that was
\* created and never reused: its reference count is 1) is no longer held by
\* the table and no dentry refers to it; so the table holds live entries only.
C20_StoreEntriesLive ==
    \A l \in 1..Len(ltes) :
        (~ltes[l].live /\ ltes[l].refcnt = 1) =>
            /\ l \notin table
            /\ \A d \in Dentries : l \notin RefersTo(d)

\* C17: when ntfs_inode_open fails for a child, filldir returns nonzero
\* without calling __build_dentry_tree_ntfs on the inode that was not
\* opened: no dentry exists for it, and none is linked under the parent.
C17_NoDentryForUnopenedInode ==
    /\ \A d \in Dentries : audit[d].ni # NULL
    /\ \A i \in 1..Len(stack) : stack[i].ni # NULL

\* C19: the index is consulted for an inode only after both calls of
\* ntfs_inode_get_security succeeded for it, so that every entry of the
\* descriptor table holds bytes that were read; and a capture that returns
\* success had both calls succeed.
C19_SecurityReadFailureIsError ==
    \A d \in Dentries :
        /\ audit[d].sd_ret # -2 => audit[d].read_ok
        /\ (audit[d].state = "returned" /\ audit[d].cret = 0) => audit[d].read_ok

\* The children of the dentry d, in the order in which they were linked.
Children(d) == dentries[d].children

\* The content and the security descriptor of the inode of the dentry c were
\* read without a failure: it is a file, its streams were captured and both
\* calls of ntfs_inode_get_security succeeded.
ReadWell(c) ==
    /\ audit[c].ni # NULL
    /\ ~audit[c].reparse
    /\ ~audit[c].isdir
    /\ audit[c].captures = 1
    /\ audit[c].capret = 0
    /\ audit[c].read_ok
    /\ audit[c].sd_ret >= 0

\* C18: security identifiers are assigned in post-order.  The descriptor of
\* an inode is given to the index after its streams were captured and, for a
\* directory, after the capture of every child returned; the children of a
\* directory get theirs in the order of the enumeration, before the
\* directory.  A file of the root that was read well has its capture return
\* success, so that the enumeration goes on; and when the root holds two files with the
\* same content and different descriptors, they get the identifiers 0 and 1
\* and share one lookup table entry with the reference count 2.
C18_PostOrderIdentifiers ==
    /\ \A d \in Dentries :
        audit[d].sd_seq > 0 =>
            /\ ~ChildUnderWay(d)
            /\ ~audit[d].enumerated => audit[d].captures = 1 /\ audit[d].capret = 0
            /\ \A i \in 1..Len(Children(d)) :
                /\ audit[Children(d)[i]].state = "returned"
                /\ audit[Children(d)[i]].sd_seq > 0
                /\ audit[Children(d)[i]].sd_seq < audit[d].sd_seq
                /\ \A j \in 1..(i - 1) :
                    audit[Children(d)[j]].sd_seq < audit[Children(d)[i]].sd_seq
    /\ \A c \in Dentries :
        (ReadWell(c) /\ audit[c].state = "returned" /\ dentries[c].parent = 1)
            => audit[c].cret = 0
    /\ (/\ Len(dentries) = 3
        /\ Children(1) = <<2, 3>>
        /\ ReadWell(2)
        /\ ReadWell(3)
        /\ audit[2].streams = audit[3].streams
        /\ Len(audit[2].streams) = 1
        /\ audit[2].obj_sd # audit[3].obj_sd)
       => /\ dentries[2].security_id = 0
          /\ dentries[3].security_id = 1
          /\ dentries[2].lte = dentries[3].lte
          /\ ltes[dentries[2].lte].refcnt = 2

====
